---- MODULE Spec2Model ----
(***************************************************************************)
(* Verification model of the notion-widgets serverless functions:          *)
(* the period resolution, week bucketing and invoice projection of         *)
(* time-tracking-export, the weekday-group resolution and event filter of  *)
(* the calendar endpoints, and the read and write endpoints of the         *)
(* time-tracking store.                                                    *)
(*                                                                         *)
(* A Dayjs value is modelled by its civil fields [y, m, d] (m in 1..12).   *)
(* Hours are fixed-point: an integer number of hour units.                 *)
(* A string that is measured or split is a sequence of glyph runs.         *)
(***************************************************************************)
EXTENDS Integers, Sequences, FiniteSets, TLC

VARIABLES
    date,        \* SpecDates: the Dayjs argument of the pure date functions
    weekNum,     \* SpecDates: <<getWeekNumber(date)>> once computed
    paymentDue,  \* SpecDates: <<payment due date of date>> once computed
    now,         \* handlers: dayjs().tz(MST), the current civil date
    resp,        \* handlers: the response of the last handler run
    entries,     \* SpecReport: TimeEntry[] handed to groupEntriesByWeek
    invoiceDate, \* SpecReport: the invoiceDate argument
    weeks,       \* SpecReport: <<the WeekGroup built by groupEntriesByWeek>>
    invoice,     \* SpecReport: <<what generateInvoicePdf computed>>
    hoursLog,    \* SpecHoursLog: <<what generateHoursLogPdf drew>>
    store,       \* SpecStore: the pages of the time-tracking database
    pc,          \* SpecStore: position of each in-flight add-row request
    req,         \* SpecStore: the body of each in-flight add-row request
    calls        \* the Notion API calls made by the calendar handlers, in order

vars == <<date, weekNum, paymentDue, now, resp, entries, invoiceDate, weeks,
          invoice, hoursLog, store, pc, req, calls>>

dateVars == <<date, weekNum, paymentDue>>
reportVars == <<entries, invoiceDate, weeks, invoice, hoursLog>>
procVars == <<pc, req>>

None == "none"

----------------------------------------------------------------------------
(* Bounds *)

\* number of consecutive civil dates, from FirstDate on, the date functions are applied to
NumDates == 1100
\* number of consecutive civil dates, from FirstNow on, that "now" ranges over
NumNow == 480
\* SpecReport: the longest entry list handed to groupEntriesByWeek
MaxEntries == 3
\* SpecReport: the entry dates are this many dates, three days apart, from FirstReportDate on
NumReportDates == 5
\* the largest hours value of an entry, in hour units
MaxHours == 2
\* SpecExport: the largest number of pages in the time-tracking database
MaxExportPages == 2
\* SpecStore: the largest number of pages the time-tracking database grows to
MaxStorePages == 2
\* SpecStore: the request dates are this many consecutive dates from FirstStoreDate on
NumStoreDates == 2
\* SpecCalendar: number of consecutive civil dates, from FirstCalNow on, that "now" ranges over
NumCalNow == 14
\* SpecCalendar: the largest number of comma-separated elements of the day parameter
MaxDays == 2
\* SpecEvents: the largest number of pages in the calendar database
MaxEvents == 2
\* SpecGetData: the largest number of pages in the time-tracking database
MaxDataPages == 2
\* SpecGetData: number of consecutive civil dates, from FirstDataNow on, that "now" ranges over
NumDataNow == 6
\* SpecMapping: the longest batch of raw records handed to the mapping loops
MaxBatch == 3
\* SpecHoursLog: the longest of the entry lists with one entry per date
MaxLogEntries == 16
\* SpecHoursLog: the longest description, in pieces, of the single-entry lists
MaxDescLen == 5
\* SpecHoursLog: the most words in a description of the longer entry lists
MaxDescWords == 5

----------------------------------------------------------------------------
(* Civil-date arithmetic of dayjs / the JS Date object *)

IsLeap(y) == (y % 4 = 0 /\ y % 100 # 0) \/ y % 400 = 0

\* dayjs#daysInMonth
DaysInMonth(y, m) ==
    IF m = 2 THEN (IF IsLeap(y) THEN 29 ELSE 28)
    ELSE IF m \in {4, 6, 9, 11} THEN 30 ELSE 31

\* dayjs#valueOf at day granularity: days since 1970-01-01
ValueOf(dt) ==
    LET yy  == IF dt.m <= 2 THEN dt.y - 1 ELSE dt.y
        era == yy \div 400
        yoe == yy - era * 400
        mp  == (dt.m + 9) % 12
        doy == (153 * mp + 2) \div 5 + dt.d - 1
        doe == yoe * 365 + yoe \div 4 - yoe \div 100 + doy
    IN  era * 146097 + doe - 719468

\* the Dayjs value of a day count (the JS Date normalisation of an overflowing day-of-month)
FromValue(z) ==
    LET z1  == z + 719468
        era == z1 \div 146097
        doe == z1 - era * 146097
        yoe == (doe - doe \div 1460 + doe \div 36524 - doe \div 146096) \div 365
        doy == doe - (365 * yoe + yoe \div 4 - yoe \div 100)
        mp  == (5 * doy + 2) \div 153
        dd  == doy - (153 * mp + 2) \div 5 + 1
        mm  == IF mp < 10 THEN mp + 3 ELSE mp - 9
        yy  == yoe + era * 400 + (IF mm <= 2 THEN 1 ELSE 0)
    IN  [y |-> yy, m |-> mm, d |-> dd]

\* dayjs#day: 0 = Sunday .. 6 = Saturday (1970-01-01 was a Thursday)
Day(dt) == (ValueOf(dt) + 4) % 7

\* dayjs#add(n, "day")
AddDays(dt, n) == FromValue(ValueOf(dt) + n)

\* dayjs#startOf("month")
StartOfMonth(dt) == [dt EXCEPT !.d = 1]

\* dayjs#endOf("month")
EndOfMonth(dt) == [dt EXCEPT !.d = DaysInMonth(dt.y, dt.m)]

\* dayjs#date(n): set the day-of-month
SetDate(dt, n) == AddDays(StartOfMonth(dt), n - 1)

\* dayjs#isBefore / isAfter / isSame(.., "day") / diff(.., "day")
IsBefore(a, b) == ValueOf(a) < ValueOf(b)
IsAfter(a, b) == ValueOf(a) > ValueOf(b)
IsSameDay(a, b) == a.y = b.y /\ a.m = b.m /\ a.d = b.d
DiffDays(a, b) == ValueOf(a) - ValueOf(b)

\* dayjs#subtract(1, "month"): the month before, the day-of-month clamped to its length
SubtractMonth(dt) ==
    LET py == IF dt.m = 1 THEN dt.y - 1 ELSE dt.y
        pm == IF dt.m = 1 THEN 12 ELSE dt.m - 1
        dim == DaysInMonth(py, pm)
    IN  [y |-> py, m |-> pm, d |-> IF dt.d < dim THEN dt.d ELSE dim]

MonthNames == <<"January", "February", "March", "April", "May", "June", "July",
                "August", "September", "October", "November", "December">>

\* dayjs#format("MMMM YYYY")
FormatMonthYear(dt) == <<MonthNames[dt.m], dt.y>>

\* dayjs#format("YYYY-MM-DD")
FormatYMD(dt) == <<dt.y, dt.m, dt.d>>

\* dayjs#format("M/D")
FormatMD(dt) == <<dt.m, dt.d>>

\* dayjs#format("MM/DD/YY")
FormatMDY(dt) == <<dt.m, dt.d, dt.y % 100>>

FirstDate == [y |-> 2023, m |-> 1, d |-> 1]
Dates == {AddDays(FirstDate, i) : i \in 0..(NumDates - 1)}

FirstNow == [y |-> 2023, m |-> 12, d |-> 1]
Nows == {AddDays(FirstNow, i) : i \in 0..(NumNow - 1)}

----------------------------------------------------------------------------
(* time-tracking-export: the pure date functions *)

\* getWeekNumber with 0-indexed weeks from the first Sunday (the base is forgotten)
getWeekNumberNoBase(dt) ==
    LET firstDay == StartOfMonth(dt)
        daysUntilSunday == (7 - Day(firstDay)) % 7
        firstSun == AddDays(firstDay, daysUntilSunday)
    IN  IF IsBefore(dt, firstSun) THEN 1
        ELSE DiffDays(dt, firstSun) \div 7

\* getWeekNumber with the base fixed to 2 (the month starting on a Sunday is forgotten)
getWeekNumberBase2(dt) ==
    LET firstDay == StartOfMonth(dt)
        daysUntilSunday == (7 - Day(firstDay)) % 7
        firstSun == AddDays(firstDay, daysUntilSunday)
    IN  IF IsBefore(dt, firstSun) THEN 1
        ELSE (DiffDays(dt, firstSun) \div 7) + 2

getWeekNumber(dt) ==
    LET firstDay == StartOfMonth(dt)
        daysUntilSunday == (7 - Day(firstDay)) % 7
        firstSun == AddDays(firstDay, daysUntilSunday)
    IN  IF IsBefore(dt, firstSun) THEN 1
        ELSE LET base == IF IsSameDay(firstSun, firstDay) THEN 1 ELSE 2
             IN  (DiffDays(dt, firstSun) \div 7) + base

\* invoiceDate.add(45, "day").date(15), the day-of-month left as it is
PaymentDueDateNoClamp(inv) == AddDays(inv, 45)

\* invoiceDate.add(30, "day").date(15): one month length instead of one and a half
PaymentDueDateAdd30(inv) == SetDate(AddDays(inv, 30), 15)

\* invoiceDate.add(45, "day").date(15)
PaymentDueDate(inv) == SetDate(AddDays(inv, 45), 15)

----------------------------------------------------------------------------
(* SpecDates: the pure date functions applied to every date of Dates *)

\* a result variable holds <<>> until its function has run, then <<result>>
IdleHandlers == now = None /\ resp = <<>>
IdleReport ==
    entries = <<>> /\ invoiceDate = None /\ weeks = <<>> /\ invoice = <<>> /\ hoursLog = <<>>
IdleStore == store = <<>> /\ pc = <<>> /\ req = <<>>
IdleCalls == calls = <<>>
IdleDates == date = None /\ weekNum = <<>> /\ paymentDue = <<>>

InitDates ==
    /\ date \in Dates
    /\ weekNum = <<>>
    /\ paymentDue = <<>>
    /\ IdleHandlers /\ IdleReport /\ IdleStore /\ IdleCalls

ApplyGetWeekNumber ==
    /\ weekNum' = <<getWeekNumber(date)>>
    /\ UNCHANGED <<date, paymentDue, now, resp, reportVars, store, procVars, calls>>

ApplyPaymentDueDate ==
    /\ paymentDue' = <<PaymentDueDate(date)>>
    /\ UNCHANGED <<date, weekNum, now, resp, reportVars, store, procVars, calls>>

NextDates == ApplyGetWeekNumber \/ ApplyPaymentDueDate

SpecDates == InitDates /\ [][NextDates]_vars

(* Claims about the pure date functions *)

\* no Sunday among the days lo..hi of the month y-m
SundayFree(y, m, lo, hi) == \A k \in lo..hi : Day([y |-> y, m |-> m, d |-> k]) # 0

\* C2: for every calendar date d, getWeekNumber(d) >= 1; and when d is a Sunday
\* and d + 7 days lies in the same month, getWeekNumber(d + 7) = getWeekNumber(d) + 1.
C2_WeekNumberSundays ==
    weekNum # <<>> =>
        /\ weekNum[1] >= 1
        /\ (Day(date) = 0 /\ AddDays(date, 7).m = date.m
               => getWeekNumber(AddDays(date, 7)) = weekNum[1] + 1)

\* getWeekNumber has run on a Sunday whose next Sunday is in the same month
C2_Witness ==
    weekNum # <<>> /\ Day(date) = 0 /\ AddDays(date, 7).m = date.m

\* C3: within a month, getWeekNumber is 1 on every date before the first Sunday
\* and on the first seven days of a month that starts on a Sunday; two in-month
\* dates with no Sunday after the earlier one up to the later one (one
\* Sunday-to-Saturday span) get the same number; a Sunday after the 1st gets the
\* number of the day before it plus 1; and the number never decreases with the date.
C3_WeekNumberShape ==
    weekNum # <<>> =>
        LET y == date.y
            m == date.m
            d == date.d
            wn(k) == getWeekNumber([y |-> y, m |-> m, d |-> k])
        IN  /\ (SundayFree(y, m, 1, d) => weekNum[1] = 1)
            /\ (Day(StartOfMonth(date)) = 0 /\ d <= 7 => weekNum[1] = 1)
            /\ \A k \in 1..d :
                  IF SundayFree(y, m, k + 1, d)
                  THEN wn(k) = weekNum[1]
                  ELSE wn(k) < weekNum[1]
            /\ (d > 1 /\ Day(date) = 0 => weekNum[1] = wn(d - 1) + 1)

\* getWeekNumber has run on the second Sunday of a month that starts on a Sunday
C3_Witness ==
    weekNum # <<>> /\ Day(StartOfMonth(date)) = 0 /\ date.d = 8 /\ weekNum[1] = 2

\* the month in which day number n (counted from day 1 of month y-m, possibly
\* past its end) falls, found by walking the month lengths
RECURSIVE MonthOfDay(_, _, _)
MonthOfDay(y, m, n) ==
    IF n <= DaysInMonth(y, m) THEN <<y, m>>
    ELSE MonthOfDay(IF m = 12 THEN y + 1 ELSE y, IF m = 12 THEN 1 ELSE m + 1,
                    n - DaysInMonth(y, m))

\* C6: the payment due date of an invoice date is the 15th of the month in which
\* invoice date + 45 days falls, whatever the lengths of the months in between;
\* 2024-01-31 gives 2024-03-15.
C6_PaymentDue15th ==
    paymentDue # <<>> =>
        LET ym == MonthOfDay(date.y, date.m, date.d + 45)
        IN  /\ paymentDue[1] = [y |-> ym[1], m |-> ym[2], d |-> 15]
            /\ (date = [y |-> 2024, m |-> 1, d |-> 31]
                   => paymentDue[1] = [y |-> 2024, m |-> 3, d |-> 15])

\* the due date of the invoice date 2024-01-31 has been computed
C6_Witness ==
    paymentDue # <<>> /\ date = [y |-> 2024, m |-> 1, d |-> 31]

----------------------------------------------------------------------------
(* time-tracking-export: week grouping and the invoice projection *)

HOURLY_RATE == 55

\* groupEntriesByWeek whose month filter compares the month name only ("MMMM")
RECURSIVE groupLoopMonthOnly(_, _, _, _)
groupLoopMonthOnly(es, monthYear, i, acc) ==
    IF i > Len(es) THEN acc
    ELSE LET entry == es[i]
         IN  IF FormatMonthYear(entry.date)[1] = monthYear[1]
             THEN LET wk == getWeekNumber(entry.date)
                      a1 == IF wk \in DOMAIN acc THEN acc ELSE acc @@ (wk :> <<>>)
                  IN  groupLoopMonthOnly(es, monthYear, i + 1,
                                         [a1 EXCEPT ![wk] = Append(@, entry)])
             ELSE groupLoopMonthOnly(es, monthYear, i + 1, acc)

groupEntriesByWeekMonthOnly(es, monthYear) ==
    groupLoopMonthOnly(es, monthYear, 1, <<>>)

\* the for loop of groupEntriesByWeek, from entry i on, acc being the WeekGroup so far
RECURSIVE groupLoop(_, _, _, _)
groupLoop(es, monthYear, i, acc) ==
    IF i > Len(es) THEN acc
    ELSE LET entry == es[i]
         IN  IF FormatMonthYear(entry.date) = monthYear
             THEN LET wk == getWeekNumber(entry.date)
                      a1 == IF wk \in DOMAIN acc THEN acc ELSE acc @@ (wk :> <<>>)
                  IN  groupLoop(es, monthYear, i + 1,
                                [a1 EXCEPT ![wk] = Append(@, entry)])
             ELSE groupLoop(es, monthYear, i + 1, acc)

\* a WeekGroup is a function from the week numbers present to their entry lists
groupEntriesByWeek(es, monthYear) == groupLoop(es, monthYear, 1, <<>>)

\* Object.keys(weeks).map(Number).sort((a, b) => a - b)
RECURSIVE SortedWeeks(_)
SortedWeeks(keys) ==
    IF keys = {} THEN <<>>
    ELSE LET mn == CHOOSE k \in keys : \A j \in keys : k <= j
         IN  <<mn>> \o SortedWeeks(keys \ {mn})

\* weekEntries.reduce((sum, entry) => sum + entry.hours, 0)
RECURSIVE SumHours(_)
SumHours(es) == IF es = <<>> THEN 0 ELSE es[1].hours + SumHours(Tail(es))

\* weekEntries.reduce((min, entry) => entry.date.isBefore(min) ? entry.date : min, weekEntries[0].date)
RECURSIVE MinDate(_, _)
MinDate(es, min) ==
    IF es = <<>> THEN min
    ELSE MinDate(Tail(es), IF IsBefore(es[1].date, min) THEN es[1].date ELSE min)

\* weekEntries.reduce((max, entry) => entry.date.isAfter(max) ? entry.date : max, weekEntries[0].date)
RECURSIVE MaxDate(_, _)
MaxDate(es, max) ==
    IF es = <<>> THEN max
    ELSE MaxDate(Tail(es), IF IsAfter(es[1].date, max) THEN es[1].date ELSE max)

getOrdinalSuffix(day) ==
    IF day >= 11 /\ day <= 13 THEN "th"
    ELSE IF day % 10 = 1 THEN "st"
    ELSE IF day % 10 = 2 THEN "nd"
    ELSE IF day % 10 = 3 THEN "rd"
    ELSE "th"

\* BillingEntryOf with weekEnd reduced with isBefore, as weekStart is
BillingEntryOfEndIsStart(wks, monthYear, wk) ==
    LET weekEntries == wks[wk]
        weekHours == SumHours(weekEntries)
        weekAmount == weekHours * HOURLY_RATE
        weekStart == MinDate(weekEntries, weekEntries[1].date)
        weekEnd == MinDate(weekEntries, weekEntries[1].date)
    IN  [date |-> FormatMDY(weekEnd),
         description |-> [monthYear |-> monthYear, week |-> wk,
                          from |-> FormatMD(weekStart), to |-> FormatMD(weekEnd)],
         amount |-> weekAmount]

\* one pass of the billing loop of generateInvoicePdf: the BillingEntry of week wk
BillingEntryOf(wks, monthYear, wk) ==
    LET weekEntries == wks[wk]
        weekHours == SumHours(weekEntries)
        weekAmount == weekHours * HOURLY_RATE
        weekStart == MinDate(weekEntries, weekEntries[1].date)
        weekEnd == MaxDate(weekEntries, weekEntries[1].date)
    IN  [date |-> FormatMDY(weekEnd),
         description |-> [monthYear |-> monthYear, week |-> wk,
                          from |-> FormatMD(weekStart), to |-> FormatMD(weekEnd)],
         amount |-> weekAmount]

\* the billing loop with the total overwritten by each week (= instead of +=)
RECURSIVE BillingLoopLastOnly(_, _, _, _, _)
BillingLoopLastOnly(wks, monthYear, sortedWeeks, i, acc) ==
    IF i > Len(sortedWeeks) THEN acc
    ELSE LET be == BillingEntryOf(wks, monthYear, sortedWeeks[i])
         IN  BillingLoopLastOnly(wks, monthYear, sortedWeeks, i + 1,
                 [billingEntries |-> Append(acc.billingEntries, be),
                  totalAmount |-> be.amount])

\* the billing loop of generateInvoicePdf from sortedWeeks[i] on
RECURSIVE BillingLoop(_, _, _, _, _)
BillingLoop(wks, monthYear, sortedWeeks, i, acc) ==
    IF i > Len(sortedWeeks) THEN acc
    ELSE LET be == BillingEntryOf(wks, monthYear, sortedWeeks[i])
         IN  BillingLoop(wks, monthYear, sortedWeeks, i + 1,
                 [billingEntries |-> Append(acc.billingEntries, be),
                  totalAmount |-> acc.totalAmount + be.amount])

\* what generateInvoicePdf computes and then draws: the table rows, the total
\* and the two date strings
generateInvoicePdf(inv, wks) ==
    LET monthYear == FormatMonthYear(inv)
        billed == BillingLoop(wks, monthYear, SortedWeeks(DOMAIN wks), 1,
                              [billingEntries |-> <<>>, totalAmount |-> 0])
        paymentDueDate == PaymentDueDate(inv)
    IN  [billingEntries |-> billed.billingEntries,
         totalAmount |-> billed.totalAmount,
         paymentDueDateStr |-> <<MonthNames[paymentDueDate.m], paymentDueDate.d,
                                 getOrdinalSuffix(paymentDueDate.d)>>,
         invoiceDateStr |-> <<MonthNames[inv.m], inv.d, getOrdinalSuffix(inv.d), inv.y>>]

----------------------------------------------------------------------------
(* SpecReport: groupEntriesByWeek and generateInvoicePdf on bounded entry lists *)

FirstReportDate == [y |-> 2024, m |-> 2, d |-> 27]
ReportDates == {AddDays(FirstReportDate, 3 * i) : i \in 0..(NumReportDates - 1)}
ReportEntries == [date : ReportDates, hours : {1, MaxHours}]
ReportInvoiceDates == {[y |-> 2024, m |-> 2, d |-> 29], [y |-> 2024, m |-> 3, d |-> 31],
                       [y |-> 2023, m |-> 3, d |-> 31]}

InitReport ==
    /\ entries \in UNION {[1..n -> ReportEntries] : n \in 0..MaxEntries}
    /\ invoiceDate \in ReportInvoiceDates
    /\ weeks = <<>>
    /\ invoice = <<>>
    /\ hoursLog = <<>>
    /\ IdleDates /\ IdleHandlers /\ IdleStore /\ IdleCalls

GroupEntriesByWeek ==
    /\ weeks' = <<groupEntriesByWeek(entries, FormatMonthYear(invoiceDate))>>
    /\ UNCHANGED <<dateVars, now, resp, entries, invoiceDate, invoice, hoursLog, store,
                   procVars, calls>>

\* the handler calls generateInvoicePdf only with a non-empty WeekGroup
GenerateInvoicePdf ==
    /\ weeks # <<>>
    /\ DOMAIN weeks[1] # {}
    /\ invoice' = <<generateInvoicePdf(invoiceDate, weeks[1])>>
    /\ UNCHANGED <<dateVars, now, resp, entries, invoiceDate, weeks, hoursLog, store,
                   procVars, calls>>

NextReport == GroupEntriesByWeek \/ GenerateInvoicePdf

SpecReport == InitReport /\ [][NextReport]_vars

(* Claims about groupEntriesByWeek and the invoice *)

\* the entry's date lies in the month of the invoice date
InTargetMonth(e) == e.date.y = invoiceDate.y /\ e.date.m = invoiceDate.m

\* the sum of f[i] over the indices i of S
RECURSIVE SumOver(_, _)
SumOver(f, S) ==
    IF S = {} THEN 0
    ELSE LET i == CHOOSE x \in S : TRUE IN f[i] + SumOver(f, S \ {i})

\* C1: groupEntriesByWeek puts every entry of the target month in exactly the
\* bucket keyed by getWeekNumber of its date (each bucket is the list of the
\* in-month entries of that week, with their multiplicity, and there is no
\* other bucket), no entry of another month is in a bucket, and the bucket
\* sizes add up to the number of in-month entries.
C1_GroupPartitions ==
    weeks # <<>> =>
        LET wg == weeks[1]
            inMonth == {i \in 1..Len(entries) : InTargetMonth(entries[i])}
        IN  /\ DOMAIN wg = {getWeekNumber(entries[i].date) : i \in inMonth}
            /\ \A k \in DOMAIN wg :
                  LET OfWeek(e) == InTargetMonth(e) /\ getWeekNumber(e.date) = k
                  IN  wg[k] = SelectSeq(entries, OfWeek)
            /\ \A k \in DOMAIN wg : \A j \in 1..Len(wg[k]) : InTargetMonth(wg[k][j])
            /\ SumOver([k \in DOMAIN wg |-> Len(wg[k])], DOMAIN wg) = Cardinality(inMonth)

\* a list with an out-of-month entry and two entries of one week has been grouped
C1_Witness ==
    /\ weeks # <<>>
    /\ \E i \in 1..Len(entries) : ~InTargetMonth(entries[i])
    /\ \E k \in DOMAIN weeks[1] : Len(weeks[1][k]) >= 2

\* C4: the invoice's totalAmount is the sum of the amounts of the billing line
\* items, and is HOURLY_RATE times the sum of the hours of the entries of the
\* target month (hours in integer units).
C4_TotalIsSum ==
    invoice # <<>> =>
        LET inv == invoice[1]
            inMonth == {i \in 1..Len(entries) : InTargetMonth(entries[i])}
        IN  /\ inv.totalAmount =
                  SumOver([i \in 1..Len(inv.billingEntries) |-> inv.billingEntries[i].amount],
                          1..Len(inv.billingEntries))
            /\ inv.totalAmount =
                  HOURLY_RATE * SumOver([i \in inMonth |-> entries[i].hours], inMonth)

\* an invoice with two line items, one of them of a week with two entries
C4_Witness ==
    /\ invoice # <<>>
    /\ Len(invoice[1].billingEntries) >= 2
    /\ \E k \in DOMAIN weeks[1] : Len(weeks[1][k]) >= 2

\* C10: the invoice has one line item per week bucket, in ascending week-number
\* order; the item's amount is the bucket's hours times HOURLY_RATE, its label
\* range runs from the earliest to the latest entry date of the bucket, and its
\* date column is that latest date.
C10_LinePerWeek ==
    invoice # <<>> =>
        LET items == invoice[1].billingEntries
            wg == weeks[1]
        IN  /\ Len(items) = Cardinality(DOMAIN wg)
            /\ {items[i].description.week : i \in 1..Len(items)} = DOMAIN wg
            /\ \A i, j \in 1..Len(items) :
                  i < j => items[i].description.week < items[j].description.week
            /\ \A i \in 1..Len(items) :
                  LET bucket == wg[items[i].description.week]
                      idx == 1..Len(bucket)
                  IN  /\ items[i].amount =
                            HOURLY_RATE * SumOver([j \in idx |-> bucket[j].hours], idx)
                      /\ \E lo \in idx :
                            /\ \A j \in idx : ValueOf(bucket[lo].date) <= ValueOf(bucket[j].date)
                            /\ items[i].description.from = <<bucket[lo].date.m, bucket[lo].date.d>>
                      /\ \E hi \in idx :
                            /\ \A j \in idx : ValueOf(bucket[hi].date) >= ValueOf(bucket[j].date)
                            /\ items[i].description.to = <<bucket[hi].date.m, bucket[hi].date.d>>
                            /\ items[i].date = <<bucket[hi].date.m, bucket[hi].date.d,
                                                 bucket[hi].date.y % 100>>

\* an invoice with two line items, one of a week whose entries are on two
\* different dates, the later one first in the list
C10_Witness ==
    /\ invoice # <<>>
    /\ Len(invoice[1].billingEntries) >= 2
    /\ \E k \in DOMAIN weeks[1] :
          /\ Len(weeks[1][k]) >= 2
          /\ ValueOf(weeks[1][k][1].date) > ValueOf(weeks[1][k][2].date)

----------------------------------------------------------------------------
(* time-tracking-export: the CSV handler and the document handler *)

\* a page of the time-tracking database: date is <<>> when the Date property is
\* empty and <<d>> otherwise; hours 0 and the description <<>> (the empty
\* string) stand for missing values
Page(d, h, desc, notes) == [date |-> d, hours |-> h, description |-> desc, notes |-> notes]

\* a "YYYY-MM-DD" string read as a date
ParseYMD(str) == [y |-> str[1], m |-> str[2], d |-> str[3]]

\* the pages sorted by Date ascending, pages of one date in their stored order
RECURSIVE SortByDate(_)
SortByDate(pages) ==
    IF pages = <<>> THEN <<>>
    ELSE LET rest == SortByDate(SubSeq(pages, 1, Len(pages) - 1))
             p == pages[Len(pages)]
             Le(q) == ValueOf(q.date[1]) <= ValueOf(p.date[1])
             Gt(q) == ValueOf(q.date[1]) > ValueOf(p.date[1])
         IN  SelectSeq(rest, Le) \o <<p>> \o SelectSeq(rest, Gt)

\* notion.dataSources.query with the filter Date on_or_after from and
\* on_or_before to, sorted by Date ascending; a page without a date matches no filter
QueryRange(pages, from, to) ==
    LET InRange(p) ==
            /\ p.date # <<>>
            /\ ValueOf(p.date[1]) >= ValueOf(ParseYMD(from))
            /\ ValueOf(p.date[1]) <= ValueOf(ParseYMD(to))
    IN  SortByDate(SelectSeq(pages, InRange))

DAYS_OF_WEEK == <<"Sunday", "Monday", "Tuesday", "Wednesday", "Thursday", "Friday", "Saturday">>

\* formatDate: M/D/YYYY
formatDate(dt) == <<dt.m, dt.d, dt.y>>

getDayOfWeek(dt) == DAYS_OF_WEEK[Day(dt) + 1]

\* the CSV handler's target month with the cut-over of getInvoiceDate (< 15)
CsvTargetMonthStrict(today) == IF today.d < 15 THEN SubtractMonth(today) ELSE today

\* the CSV handler's target month: days 1-15 export the previous month
CsvTargetMonth(today) == IF today.d <= 15 THEN SubtractMonth(today) ELSE today

\* getInvoiceDate with the cut-over of the CSV handler (<= 15)
getInvoiceDateInclusive(today) ==
    IF today.d <= 15 THEN EndOfMonth(SubtractMonth(today)) ELSE EndOfMonth(today)

getInvoiceDate(today) ==
    IF today.d < 15 THEN EndOfMonth(SubtractMonth(today)) ELSE EndOfMonth(today)

\* the CSV handler's mapping loop given up at the first page without a date
RECURSIVE CsvEntriesStopAtBad(_)
CsvEntriesStopAtBad(results) ==
    IF results = <<>> THEN <<>>
    ELSE LET page == results[1]
         IN  IF page.date # <<>>
             THEN <<[date |-> page.date[1], hours |-> page.hours,
                     description |-> page.description, notes |-> page.notes]>>
                      \o CsvEntriesStopAtBad(Tail(results))
             ELSE <<>>

\* the CSV handler's mapping loop: a page becomes a TimeEntry unless its date is empty
RECURSIVE CsvEntries(_)
CsvEntries(results) ==
    IF results = <<>> THEN <<>>
    ELSE LET page == results[1]
         IN  (IF page.date # <<>>
              THEN <<[date |-> page.date[1], hours |-> page.hours,
                      description |-> page.description, notes |-> page.notes]>>
              ELSE <<>>) \o CsvEntries(Tail(results))

\* the document handler's mapping loop
RECURSIVE PdfEntries(_)
PdfEntries(results) ==
    IF results = <<>> THEN <<>>
    ELSE LET page == results[1]
         IN  (IF page.date # <<>>
              THEN <<[date |-> page.date[1], hours |-> page.hours,
                      description |-> page.description]>>
              ELSE <<>>) \o PdfEntries(Tail(results))

\* [...weekEntries] in its insertion order (the sort left out)
SortEntriesUnsorted(es) == es

\* [...weekEntries].sort((a, b) => a.date.valueOf() - b.date.valueOf())
RECURSIVE SortEntries(_)
SortEntries(es) ==
    IF es = <<>> THEN <<>>
    ELSE LET rest == SortEntries(SubSeq(es, 1, Len(es) - 1))
             e == es[Len(es)]
             Le(q) == ValueOf(q.date) <= ValueOf(e.date)
             Gt(q) == ValueOf(q.date) > ValueOf(e.date)
         IN  SelectSeq(rest, Le) \o <<e>> \o SelectSeq(rest, Gt)

----------------------------------------------------------------------------
(* generateHoursLogPdf: the drawing instructions of the hours log, in the    *)
(* order they are issued.  y is in points as in the source; lengths along x  *)
(* are in thousandths of a point, the unit in which size-11 text measures    *)
(* to an integer.                                                            *)

\* page.getSize() of a [612, 792] page
height == 792
leftMargin == 50
rightMargin == 562

\* n points, in thousandths of a point
Pt(n) == n * 1000

\* the pieces descriptions are made of: the space, the word "work", and runs
\* of 25 and of 50 letters m
GlyphRuns == {" ", "work", "m25", "m50"}

\* the Helvetica advance widths of the pieces, in 1/1000 em
RunWidth(r) ==
    CASE r = " " -> 278 [] r = "work" -> 2111 [] r = "m25" -> 25 * 833
      [] r = "m50" -> 50 * 833

\* helvetica.widthOfTextAtSize(text, size)
RECURSIVE widthOfTextAtSize(_, _)
widthOfTextAtSize(text, size) ==
    IF text = <<>> THEN 0
    ELSE size * RunWidth(text[1]) + widthOfTextAtSize(Tail(text), size)

\* helveticaBold.widthOfTextAtSize("Total Hours: ", 11)
hoursLabelWidth == 11 * 6167
\* helveticaOblique.widthOfTextAtSize("Description: ", 11)
descLabelWidth == 11 * 5557
maxDescWidth == Pt(rightMargin) - Pt(leftMargin) - descLabelWidth

\* descText.split(" "): the pieces between the spaces, empty ones included
RECURSIVE Split(_)
Split(text) ==
    IF \A i \in 1..Len(text) : text[i] # " " THEN <<text>>
    ELSE LET i == CHOOSE k \in 1..Len(text) :
                      text[k] = " " /\ \A j \in 1..(k - 1) : text[j] # " "
         IN  <<SubSeq(text, 1, i - 1)>> \o Split(SubSeq(text, i + 1, Len(text)))

\* entry.date.format("dddd, MMMM D, YYYY")
FormatLongDate(dt) == <<DAYS_OF_WEEK[Day(dt) + 1], MonthNames[dt.m], dt.d, dt.y>>

\* the drawing state: the instructions issued so far, the current page, the
\* cursor y and the running totalHours
DrawAt(st, kind, x, y, text) ==
    [st EXCEPT !.ops = Append(@, [kind |-> kind, page |-> st.page, x |-> x, y |-> y,
                                  text |-> text])]

\* page.drawText / page.drawLine at the cursor
Draw(st, kind, x, text) == DrawAt(st, kind, x, st.y, text)

MoveDown(st, dy) == [st EXCEPT !.y = @ - dy]

\* a new page added with the cursor left where it is
NewPageNoReset(st) == [DrawAt(st, "addPage", 0, st.y, <<>>) EXCEPT !.page = @ + 1]

\* page = pdfDoc.addPage([612, 792]); y = height - 50;
\* the addPage instruction records the cursor it was issued at
NewPage(st) ==
    [DrawAt(st, "addPage", 0, st.y, <<>>) EXCEPT !.page = @ + 1, !.y = height - 50]

\* the wrap loop with the word that did not fit left out of the new line
RECURSIVE WrapLoopDropWord(_, _, _)
WrapLoopDropWord(words, i, w) ==
    IF i > Len(words) THEN w
    ELSE LET word == words[i]
             testLine == IF w.currentLine # <<>> THEN w.currentLine \o <<" ">> \o word
                         ELSE word
             testWidth == widthOfTextAtSize(testLine, 11)
         IN  IF testWidth > maxDescWidth /\ w.currentLine # <<>>
             THEN WrapLoopDropWord(words, i + 1,
                      [st |-> MoveDown(Draw(w.st, "descLine", w.descX, w.currentLine), 14),
                       currentLine |-> <<>>,
                       descX |-> IF w.firstLine THEN Pt(leftMargin) ELSE w.descX,
                       firstLine |-> FALSE])
             ELSE WrapLoopDropWord(words, i + 1, [w EXCEPT !.currentLine = testLine])

\* the word loop of the description wrap, from words[i] on; w holds the drawing
\* state and the loop's currentLine, descX and firstLine
RECURSIVE WrapLoop(_, _, _)
WrapLoop(words, i, w) ==
    IF i > Len(words) THEN w
    ELSE LET word == words[i]
             testLine == IF w.currentLine # <<>> THEN w.currentLine \o <<" ">> \o word
                         ELSE word
             testWidth == widthOfTextAtSize(testLine, 11)
         IN  IF testWidth > maxDescWidth /\ w.currentLine # <<>>
             THEN WrapLoop(words, i + 1,
                      [st |-> MoveDown(Draw(w.st, "descLine", w.descX, w.currentLine), 14),
                       currentLine |-> word,
                       descX |-> IF w.firstLine THEN Pt(leftMargin) ELSE w.descX,
                       firstLine |-> FALSE])
             ELSE WrapLoop(words, i + 1, [w EXCEPT !.currentLine = testLine])

\* the description of an entry: the label, the wrapped lines, the last line
DrawDescription(st, descText) ==
    LET labelled == Draw(st, "descLabel", Pt(leftMargin), <<"Description: ">>)
        w == WrapLoop(Split(descText), 1,
                      [st |-> labelled, currentLine |-> <<>>,
                       descX |-> Pt(leftMargin) + descLabelWidth, firstLine |-> TRUE])
    IN  IF w.currentLine # <<>>
        THEN MoveDown(Draw(w.st, "descLine", w.descX, w.currentLine), 20)
        ELSE w.st

\* the entry block after its page check: date header, hours, description
EntryBlock(st, entry) ==
    LET counted == [st EXCEPT !.totalHours = @ + entry.hours]
        dateStr == FormatLongDate(entry.date)
        dated == MoveDown(DrawAt(Draw(counted, "dateHeader", Pt(leftMargin), dateStr),
                                 "dateUnderline", Pt(leftMargin), counted.y - 2, <<>>), 18)
        houred == MoveDown(Draw(Draw(dated, "hoursLabel", Pt(leftMargin), <<"Total Hours: ">>),
                                "hoursValue", Pt(leftMargin) + hoursLabelWidth,
                                <<entry.hours>>), 16)
    IN  DrawDescription(houred, entry.description)

\* the entry loop from sortedEntries[i] on: the page check, then the block
RECURSIVE EntryLoop(_, _, _)
EntryLoop(st, sortedEntries, i) ==
    IF i > Len(sortedEntries) THEN st
    ELSE IF st.y < 80
    THEN EntryLoop(EntryBlock(NewPage(st), sortedEntries[i]), sortedEntries, i + 1)
    ELSE EntryLoop(EntryBlock(st, sortedEntries[i]), sortedEntries, i + 1)

\* the week block after its page check: the week header, the sorted entries
WeekBlock(st, wks, wk) ==
    LET headed == MoveDown(DrawAt(Draw(st, "weekHeader", Pt(leftMargin), <<"Week", wk>>),
                                  "weekUnderline", Pt(leftMargin), st.y - 2, <<>>), 25)
        sortedEntries == SortEntries(wks[wk])
    IN  MoveDown(EntryLoop(headed, sortedEntries, 1), 10)

\* the week loop from sortedWeeks[i] on: the page check, then the block
RECURSIVE HoursLogLoop(_, _, _, _)
HoursLogLoop(st, wks, sortedWeeks, i) ==
    IF i > Len(sortedWeeks) THEN st
    ELSE IF st.y < 100
    THEN HoursLogLoop(WeekBlock(NewPage(st), wks, sortedWeeks[i]), wks, sortedWeeks, i + 1)
    ELSE HoursLogLoop(WeekBlock(st, wks, sortedWeeks[i]), wks, sortedWeeks, i + 1)

\* what generateHoursLogPdf draws: the instructions and the number of pages
generateHoursLogPdf(inv, wks) ==
    LET monthYear == FormatMonthYear(inv)
        start == [ops |-> <<>>, page |-> 1, y |-> height - 50, totalHours |-> 0]
        titled == MoveDown(Draw(start, "title", Pt(leftMargin), monthYear), 30)
        logged == HoursLogLoop(titled, wks, SortedWeeks(DOMAIN wks), 1)
        divided == MoveDown(Draw(MoveDown(logged, 10), "divider", Pt(leftMargin), <<>>), 20)
        total == Draw(divided, "total", Pt(leftMargin), <<monthYear, divided.totalHours>>)
    IN  [ops |-> total.ops, pages |-> total.page]

----------------------------------------------------------------------------
(* SpecHoursLog: groupEntriesByWeek and generateHoursLogPdf on entry lists of *)
(* March 2024: lists of up to MaxLogEntries entries on different dates, in    *)
(* ascending and in two scattered insertion orders, and single-entry lists    *)
(* with every description of up to MaxDescLen pieces.                        *)

FirstLogDate == [y |-> 2024, m |-> 3, d |-> 1]
LogInvoiceDate == [y |-> 2024, m |-> 3, d |-> 31]

\* the insertion orders: entry i is dated (i * stride) mod 31 days after the 1st
LogStrides == {1, 7, 11}

\* k words of 25 letters m, separated by single spaces
RECURSIVE RepeatWord(_)
RepeatWord(k) ==
    IF k = 0 THEN <<>>
    ELSE IF k = 1 THEN <<"m25">>
    ELSE <<"m25", " ">> \o RepeatWord(k - 1)

LogDescriptions == {RepeatWord(k) : k \in {1, 2, MaxDescWords}}

AllDescriptions == UNION {[1..n -> GlyphRuns] : n \in 0..MaxDescLen}

LogEntryLists ==
    {[i \in 1..n |->
        [date |-> AddDays(FirstLogDate, (i * stride) % 31),
         hours |-> IF i % 2 = 0 THEN 1 ELSE MaxHours,
         description |-> IF i % 3 = 0 THEN d1 ELSE d2]] :
            n \in 0..MaxLogEntries, stride \in LogStrides,
            d1 \in LogDescriptions, d2 \in LogDescriptions}
      \cup {<<[date |-> FirstLogDate, hours |-> 1, description |-> d]>> :
               d \in AllDescriptions}

InitHoursLog ==
    /\ entries \in LogEntryLists
    /\ invoiceDate = LogInvoiceDate
    /\ weeks = <<>>
    /\ invoice = <<>>
    /\ hoursLog = <<>>
    /\ IdleDates /\ IdleHandlers /\ IdleStore /\ IdleCalls

\* the handler calls generateHoursLogPdf only with a non-empty WeekGroup
GenerateHoursLogPdf ==
    /\ weeks # <<>>
    /\ DOMAIN weeks[1] # {}
    /\ hoursLog' = <<generateHoursLogPdf(invoiceDate, weeks[1])>>
    /\ UNCHANGED <<dateVars, now, resp, entries, invoiceDate, weeks, invoice, store,
                   procVars, calls>>

NextHoursLog == GroupEntriesByWeek \/ GenerateHoursLogPdf

SpecHoursLog == InitHoursLog /\ [][NextHoursLog]_vars

(* Claims about the hours log *)

IndicesOfKind(ops, kind) == {i \in 1..Len(ops) : ops[i].kind = kind}

\* the index of the first instruction after index i whose kind is in stops, or
\* Len(ops) + 1 if there is none
BlockEnd(ops, i, stops) ==
    LET later == {j \in (i + 1)..Len(ops) : ops[j].kind \in stops}
    IN  IF later = {} THEN Len(ops) + 1
        ELSE CHOOSE j \in later : \A l \in later : j <= l

\* the date a "dddd, MMMM D, YYYY" text names
ParseLongDate(t) ==
    [y |-> t[4], m |-> CHOOSE m \in 1..12 : MonthNames[m] = t[2], d |-> t[3]]

\* C11: the hours log draws one week header per bucket, in ascending week-number
\* order; under each header it draws the bucket's entries (each date and hours
\* as often as the bucket holds it) in ascending date order, whatever their
\* order in the bucket; the total is drawn exactly once, as the last
\* instruction, and is the sum of the hours of every entry of every bucket.
C11_HoursLogOrder ==
    hoursLog # <<>> =>
        LET ops == hoursLog[1].ops
            wg == weeks[1]
            headers == IndicesOfKind(ops, "weekHeader")
        IN  /\ {ops[i].text[2] : i \in headers} = DOMAIN wg
            /\ \A i, j \in headers : i < j => ops[i].text[2] < ops[j].text[2]
            /\ \A i \in headers :
                  LET bucket == wg[ops[i].text[2]]
                      e == BlockEnd(ops, i, {"weekHeader", "divider"})
                      dhs == {j \in (i + 1)..(e - 1) : ops[j].kind = "dateHeader"}
                      Drawn(dt, h) == {j \in dhs : /\ ParseLongDate(ops[j].text) = dt
                                                   /\ ops[j + 2].kind = "hoursLabel"
                                                   /\ ops[j + 3].kind = "hoursValue"
                                                   /\ ops[j + 3].text = <<h>>}
                      Held(dt, h) == {n \in 1..Len(bucket) : /\ bucket[n].date = dt
                                                             /\ bucket[n].hours = h}
                  IN  /\ Cardinality(dhs) = Len(bucket)
                      /\ \A a, b \in dhs :
                            a < b => ValueOf(ParseLongDate(ops[a].text))
                                        <= ValueOf(ParseLongDate(ops[b].text))
                      /\ \A n \in 1..Len(bucket) :
                            Cardinality(Drawn(bucket[n].date, bucket[n].hours))
                               = Cardinality(Held(bucket[n].date, bucket[n].hours))
            /\ Cardinality(IndicesOfKind(ops, "total")) = 1
            /\ ops[Len(ops)].kind = "total"
            /\ ops[Len(ops)].text[2] =
                  SumOver([k \in DOMAIN wg |->
                              SumOver([n \in 1..Len(wg[k]) |-> wg[k][n].hours],
                                      1..Len(wg[k]))], DOMAIN wg)

\* a log of three or more weeks has been drawn from a bucket holding a later
\* date before an earlier one
C11_Witness ==
    /\ hoursLog # <<>>
    /\ Cardinality(DOMAIN weeks[1]) >= 3
    /\ \E k \in DOMAIN weeks[1] :
          /\ Len(weeks[1][k]) >= 2
          /\ ValueOf(weeks[1][k][1].date) > ValueOf(weeks[1][k][2].date)

\* the entries in the order the log draws them
RECURSIVE DrawnEntries(_, _)
DrawnEntries(wg, sortedWeeks) ==
    IF sortedWeeks = <<>> THEN <<>>
    ELSE SortEntries(wg[sortedWeeks[1]]) \o DrawnEntries(wg, Tail(sortedWeeks))

\* the indices of a set in ascending order
RECURSIVE Ascending(_)
Ascending(S) ==
    IF S = {} THEN <<>>
    ELSE LET mn == CHOOSE i \in S : \A j \in S : i <= j
         IN  <<mn>> \o Ascending(S \ {mn})

\* the words of a text: its pieces between spaces that are not empty
NonEmptyWords(text) ==
    LET NonEmpty(word) == word # <<>> IN SelectSeq(Split(text), NonEmpty)

\* the lines joined by single spaces
RECURSIVE JoinLines(_)
JoinLines(ls) ==
    IF ls = <<>> THEN <<>>
    ELSE IF Len(ls) = 1 THEN ls[1]
    ELSE ls[1] \o <<" ">> \o JoinLines(Tail(ls))

AllKinds == {"title", "addPage", "weekHeader", "weekUnderline", "dateHeader",
             "dateUnderline", "hoursLabel", "hoursValue", "descLabel", "descLine",
             "divider", "total"}

\* C12: for every entry of the log, the description lines drawn after its label,
\* joined by single spaces, hold the description's words in their order, none
\* lost or duplicated (and are the description itself when it has no leading,
\* trailing or doubled space); a line ends exactly where the next word would
\* have made it wider than maxDescWidth, so every line of two or more words is
\* at most maxDescWidth wide; the first line is drawn at leftMargin + label
\* width and every later line at leftMargin.
C12_WrapGreedyLossless ==
    hoursLog # <<>> =>
        LET ops == hoursLog[1].ops
            labels == Ascending(IndicesOfKind(ops, "descLabel"))
            drawn == DrawnEntries(weeks[1], SortedWeeks(DOMAIN weeks[1]))
        IN  /\ Len(labels) = Len(drawn)
            /\ \A n \in 1..Len(labels) :
                  LET i == labels[n]
                      e == BlockEnd(ops, i, AllKinds \ {"descLine"})
                      texts == [j \in 1..(e - 1 - i) |-> ops[i + j].text]
                      desc == drawn[n].description
                  IN  /\ NonEmptyWords(JoinLines(texts)) = NonEmptyWords(desc)
                      /\ (Len(NonEmptyWords(desc)) = Len(Split(desc))
                             => JoinLines(texts) = desc)
                      /\ \A j \in 1..(Len(texts) - 1) :
                            widthOfTextAtSize(texts[j] \o <<" ">>
                                                 \o NonEmptyWords(texts[j + 1])[1], 11)
                               > maxDescWidth
                      /\ \A j \in 1..Len(texts) :
                            /\ Len(NonEmptyWords(texts[j])) >= 1
                            /\ Len(NonEmptyWords(texts[j])) >= 2
                                  => widthOfTextAtSize(texts[j], 11) <= maxDescWidth
                            /\ ops[i + j].x = IF j = 1 THEN Pt(leftMargin) + descLabelWidth
                                              ELSE Pt(leftMargin)

\* a description has been drawn on two or more lines, one of them holding two
\* or more words, and one holding a single word wider than maxDescWidth
C12_Witness ==
    /\ hoursLog # <<>>
    /\ LET ops == hoursLog[1].ops
           lines == IndicesOfKind(ops, "descLine")
       IN  /\ \E j \in lines : j + 1 \in lines /\ Len(NonEmptyWords(ops[j].text)) >= 2
           /\ \E j \in lines : widthOfTextAtSize(ops[j].text, 11) > maxDescWidth

\* C13: a page check precedes every week header and every entry block: every
\* week header is drawn at y >= 100 and every date header at y >= 80; a page is
\* added only right before a week header and only when the cursor is below 100,
\* or right before a date header and only when the cursor is below 80, and
\* that header is then drawn on the new page at y = height - 50; no other
\* instruction changes the page.
C13_PageChecks ==
    hoursLog # <<>> =>
        LET ops == hoursLog[1].ops
        IN  \A i \in 1..Len(ops) :
               /\ ops[i].kind = "weekHeader" => ops[i].y >= 100
               /\ ops[i].kind = "dateHeader" => ops[i].y >= 80
               /\ ops[i].kind = "addPage" =>
                     /\ i < Len(ops)
                     /\ ops[i + 1].kind \in {"weekHeader", "dateHeader"}
                     /\ ops[i].y < (IF ops[i + 1].kind = "weekHeader" THEN 100 ELSE 80)
                     /\ ops[i + 1].y = height - 50
                     /\ ops[i + 1].page = ops[i].page + 1
               /\ (i > 1 /\ ops[i - 1].kind # "addPage") => ops[i].page = ops[i - 1].page

\* a log in which a page was added before a week header and another before a
\* date header
C13_Witness ==
    /\ hoursLog # <<>>
    /\ LET ops == hoursLog[1].ops
       IN  /\ \E i \in IndicesOfKind(ops, "addPage") : ops[i + 1].kind = "weekHeader"
           /\ \E i \in IndicesOfKind(ops, "addPage") : ops[i + 1].kind = "dateHeader"
\* C23: every drawing instruction of the hours log (week header, date header,
\* hours line, description lines, underlines, final divider and total) has a
\* vertical coordinate y >= 0 on its page.
C23_NothingBelowPage ==
    hoursLog # <<>> =>
        LET ops == hoursLog[1].ops
        IN  \A i \in 1..Len(ops) : ops[i].kind # "addPage" => ops[i].y >= 0

----------------------------------------------------------------------------
(* SpecExport: the two export handlers at every "now" of Nows.  The handlers  *)
(* keep no state between invocations, so a behaviour is one invocation.      *)

Methods == {"GET", "POST"}
DocTypes == {"invoice", "hours-log", "csv"}

\* the databases the export handlers are run on: up to MaxExportPages pages dated
\* 5 days ago or 12 days ago
ExportPages(today) ==
    {Page(<<AddDays(today, 0 - k)>>, h, <<"work">>, "") : k \in {5, 12}, h \in {1, MaxHours}}

InitExport ==
    /\ now \in Nows
    /\ store \in UNION {[1..n -> ExportPages(now)] : n \in 0..MaxExportPages}
    /\ resp = <<>>
    /\ pc = <<>> /\ req = <<>>
    /\ IdleDates /\ IdleReport /\ IdleCalls

\* the empty-bucket test never true (weeks.length of an object is undefined)
NoEntriesFoundNever(wks) == FALSE

\* Object.keys(weeks).length === 0
NoEntriesFound(wks) == DOMAIN wks = {}

CsvExportHandler(method) ==
    /\ resp = <<>>
    /\ resp' =
         IF method # "GET"
         THEN <<[handler |-> "export-csv", statusCode |-> 405]>>
         ELSE LET targetMonth == CsvTargetMonth(now)
                  firstOfMonthStr == FormatYMD(StartOfMonth(targetMonth))
                  lastOfMonthStr == FormatYMD(EndOfMonth(targetMonth))
                  results == QueryRange(store, firstOfMonthStr, lastOfMonthStr)
                  es == CsvEntries(results)
              IN  <<[handler |-> "export-csv", statusCode |-> 200,
                     filename |-> <<targetMonth.y, targetMonth.m>>,
                     query |-> [on_or_after |-> firstOfMonthStr,
                                on_or_before |-> lastOfMonthStr],
                     csvLines |-> [i \in 1..Len(es) |->
                                     <<formatDate(es[i].date), getDayOfWeek(es[i].date),
                                       es[i].hours, es[i].description, es[i].notes>>]]>>
    /\ UNCHANGED <<dateVars, reportVars, now, store, procVars, calls>>

PdfExportHandler(method, docType) ==
    /\ resp = <<>>
    /\ resp' =
         IF method # "GET"
         THEN <<[handler |-> "export-pdf", statusCode |-> 405]>>
         ELSE IF docType # "invoice" /\ docType # "hours-log"
         THEN <<[handler |-> "export-pdf", statusCode |-> 400]>>
         ELSE LET inv == getInvoiceDate(now)
                  monthYear == FormatMonthYear(inv)
                  firstOfMonthStr == FormatYMD(StartOfMonth(inv))
                  lastOfMonthStr == FormatYMD(EndOfMonth(inv))
                  results == QueryRange(store, firstOfMonthStr, lastOfMonthStr)
                  es == PdfEntries(results)
                  wks == groupEntriesByWeek(es, monthYear)
              IN  IF NoEntriesFound(wks)
                  THEN <<[handler |-> "export-pdf", statusCode |-> 404,
                          body |-> monthYear]>>
                  ELSE <<[handler |-> "export-pdf", statusCode |-> 200,
                          docType |-> docType,
                          filename |-> monthYear,
                          pdf |-> IF docType = "invoice"
                                  THEN generateInvoicePdf(inv, wks)
                                  ELSE generateHoursLogPdf(inv, wks)]>>
    /\ UNCHANGED <<dateVars, reportVars, now, store, procVars, calls>>

NextExport ==
    \/ \E method \in Methods : CsvExportHandler(method)
    \/ \E method \in Methods, docType \in DocTypes : PdfExportHandler(method, docType)

SpecExport == InitExport /\ [][NextExport]_vars

(* Claims about the reporting period *)

\* the last day of the month before today's: the day before the 1st
LastDayOfPreviousMonth(today) == AddDays(StartOfMonth(today), 0 - 1)

\* dt is the last day of its month: the next day is a 1st
IsLastOfMonth(dt) == AddDays(dt, 1).d = 1

\* C7: the CSV export targets the previous calendar month when the day-of-month
\* of now is <= 15 and the current month otherwise, also across a year boundary
\* (2024-03-10 gives February 2024, 2024-03-20 gives March 2024); the queried
\* range runs from the first to the last day of the target month.
C7_CsvTargetMonth ==
    (resp # <<>> /\ resp[1].handler = "export-csv" /\ resp[1].statusCode = 200) =>
        LET prev == LastDayOfPreviousMonth(now)
            target == IF now.d <= 15 THEN <<prev.y, prev.m>> ELSE <<now.y, now.m>>
            from == ParseYMD(resp[1].query.on_or_after)
            to == ParseYMD(resp[1].query.on_or_before)
        IN  /\ resp[1].filename = target
            /\ (now.m = 1 /\ now.d <= 15 => resp[1].filename = <<now.y - 1, 12>>)
            /\ (now = [y |-> 2024, m |-> 3, d |-> 10] => resp[1].filename = <<2024, 2>>)
            /\ (now = [y |-> 2024, m |-> 3, d |-> 20] => resp[1].filename = <<2024, 3>>)
            /\ <<from.y, from.m>> = target /\ from.d = 1
            /\ <<to.y, to.m>> = target /\ IsLastOfMonth(to)

\* the CSV export has run on the 15th of a January
C7_Witness ==
    /\ resp # <<>> /\ resp[1].handler = "export-csv" /\ resp[1].statusCode = 200
    /\ now.m = 1 /\ now.d = 15

\* C8: the invoice date is the last day of the previous month when today's
\* day-of-month is < 15 and the last day of the current month otherwise; on the
\* 15th the invoice targets the current month and the CSV export the previous
\* one, on every other day both target the same month.
C8_InvoiceDate ==
    (resp # <<>> /\ resp[1].handler = "export-pdf" /\ resp[1].statusCode \in {200, 404}) =>
        LET prev == LastDayOfPreviousMonth(now)
            month == IF resp[1].statusCode = 404 THEN resp[1].body ELSE resp[1].filename
            expected == IF now.d < 15 THEN <<MonthNames[prev.m], prev.y>>
                        ELSE <<MonthNames[now.m], now.y>>
            csv == CsvTargetMonth(now)
        IN  /\ month = expected
            /\ (resp[1].statusCode = 200 /\ resp[1].docType = "invoice" =>
                  \E last \in 28..31 :
                     /\ resp[1].pdf.invoiceDateStr =
                            <<month[1], last, getOrdinalSuffix(last), month[2]>>
                     /\ \E m \in 1..12 :
                           /\ MonthNames[m] = month[1]
                           /\ IsLastOfMonth([y |-> month[2], m |-> m, d |-> last]))
            /\ (now.d = 15 => /\ month = <<MonthNames[now.m], now.y>>
                              /\ <<csv.y, csv.m>> = <<prev.y, prev.m>>)
            /\ (now.d # 15 => month = <<MonthNames[csv.m], csv.y>>)

\* an invoice has been generated on the 15th of a month
C8_Witness ==
    /\ resp # <<>> /\ resp[1].handler = "export-pdf" /\ resp[1].statusCode = 200
    /\ resp[1].docType = "invoice" /\ now.d = 15

\* C22: at every now, the payment due date printed on the invoice is the 15th of
\* the second calendar month after the invoiced month, the invoiced month being
\* the one whose last day is the invoice date (December gives February 15th,
\* February gives April 15th in leap and other years).
C22_DueSecondMonthAfter ==
    (resp # <<>> /\ resp[1].handler = "export-pdf" /\ resp[1].statusCode = 200
        /\ resp[1].docType = "invoice") =>
        \E m \in 1..12 :
           /\ resp[1].filename[1] = MonthNames[m]
           /\ resp[1].pdf.invoiceDateStr[1] = MonthNames[m]
           /\ resp[1].pdf.invoiceDateStr[2] = DaysInMonth(resp[1].filename[2], m)
           /\ resp[1].pdf.paymentDueDateStr = <<MonthNames[((m + 1) % 12) + 1], 15, "th">>
           /\ (m = 12 => resp[1].pdf.paymentDueDateStr[1] = "February")
           /\ (m = 2 => resp[1].pdf.paymentDueDateStr[1] = "April")

\* the invoice of a December has been generated in the January after it
C22_Witness ==
    /\ resp # <<>> /\ resp[1].handler = "export-pdf" /\ resp[1].statusCode = 200
    /\ resp[1].docType = "invoice"
    /\ resp[1].filename[1] = "December" /\ now.m = 1

\* the invoice of the February of a leap year has been generated
C22_WitnessLeap ==
    /\ resp # <<>> /\ resp[1].handler = "export-pdf" /\ resp[1].statusCode = 200
    /\ resp[1].docType = "invoice"
    /\ resp[1].filename = <<"February", 2024>>
    /\ resp[1].pdf.invoiceDateStr[2] = 29

\* C14: when the store holds no entry dated in the target month, the document
\* handler answers a valid GET request with 404 and the target month in the
\* message, without a document (no generator has run), never with 500; when
\* it holds one, the answer is 200.
C14_NoDataIs404 ==
    (resp # <<>> /\ resp[1].handler = "export-pdf" /\ resp[1].statusCode \notin {400, 405}) =>
        LET prev == LastDayOfPreviousMonth(now)
            target == IF now.d < 15 THEN prev ELSE now
            inMonth == {i \in 1..Len(store) :
                           /\ store[i].date # <<>>
                           /\ store[i].date[1].y = target.y
                           /\ store[i].date[1].m = target.m}
        IN  IF inMonth = {}
            THEN /\ resp[1].statusCode = 404
                 /\ resp[1].body = <<MonthNames[target.m], target.y>>
                 /\ DOMAIN resp[1] = {"handler", "statusCode", "body"}
            ELSE /\ resp[1].statusCode = 200
                 /\ "pdf" \in DOMAIN resp[1]

\* the document handler has answered 404 on a store whose entries are all
\* outside the target month
C14_Witness ==
    /\ resp # <<>> /\ resp[1].handler = "export-pdf" /\ resp[1].statusCode = 404
    /\ store # <<>>

----------------------------------------------------------------------------
(* time-tracking-get-data: today's entry and the totals of the month *)

\* the pages with their page ids: a page's id is its position in the database
Identified(pages) ==
    [i \in 1..Len(pages) |->
        [id |-> i, date |-> pages[i].date, hours |-> pages[i].hours,
         description |-> pages[i].description, notes |-> pages[i].notes]]

\* the pages sorted by Date descending, pages of one date in their stored order
RECURSIVE SortByDateDescending(_)
SortByDateDescending(pages) ==
    IF pages = <<>> THEN <<>>
    ELSE LET rest == SortByDateDescending(SubSeq(pages, 1, Len(pages) - 1))
             p == pages[Len(pages)]
             Ge(q) == ValueOf(q.date[1]) >= ValueOf(p.date[1])
             Lt(q) == ValueOf(q.date[1]) < ValueOf(p.date[1])
         IN  SelectSeq(rest, Ge) \o <<p>> \o SelectSeq(rest, Lt)

\* notion.dataSources.query with the filter Date on_or_after from, sorted by
\* Date descending; a page without a date matches no filter
QueryOnOrAfter(pages, from) ==
    LET InRange(p) ==
            /\ p.date # <<>>
            /\ ValueOf(p.date[1]) >= ValueOf(ParseYMD(from))
    IN  SortByDateDescending(SelectSeq(pages, InRange))

\* the mapping loop of get-data from results[i] on; todayEntryId 0 and
\* todayEntry <<>> are null, the date <<>> is the empty string
RECURSIVE GetDataLoop(_, _, _, _)
GetDataLoop(results, todayStr, i, acc) ==
    IF i > Len(results) THEN acc
    ELSE LET page == results[i]
             dateStr == IF page.date # <<>> THEN FormatYMD(page.date[1]) ELSE <<>>
             hours == page.hours
             isToday == dateStr = todayStr
             first == isToday /\ acc.todayEntryId = 0
         IN  GetDataLoop(results, todayStr, i + 1,
                 [entries |-> Append(acc.entries,
                                     [date |-> dateStr, hours |-> hours,
                                      description |-> page.description]),
                  monthTotalHours |-> acc.monthTotalHours + hours,
                  todayTotalHours |-> IF isToday THEN acc.todayTotalHours + hours
                                      ELSE acc.todayTotalHours,
                  todayEntryId |-> IF first THEN page.id ELSE acc.todayEntryId,
                  todayEntry |-> IF first
                                 THEN <<[hours |-> hours, description |-> page.description,
                                         notes |-> page.notes]>>
                                 ELSE acc.todayEntry])

\* the state of the loop variables before the first page
GetDataStart ==
    [entries |-> <<>>, monthTotalHours |-> 0, todayTotalHours |-> 0,
     todayEntryId |-> 0, todayEntry |-> <<>>]

----------------------------------------------------------------------------
(* SpecGetData: get-data at every "now" of DataNows, on databases of up to   *)
(* MaxDataPages pages dated a month ago, yesterday, today and in a month;    *)
(* a behaviour is one invocation.                                            *)

FirstDataNow == [y |-> 2024, m |-> 2, d |-> 28]
DataNows == {AddDays(FirstDataNow, i) : i \in 0..(NumDataNow - 1)}
DataOffsets == {0 - 31, 0 - 1, 0, 31}

DataPages(today) ==
    {Page(<<AddDays(today, k)>>, h, <<"work">>, "") : k \in DataOffsets, h \in {1, MaxHours}}
        \cup {Page(<<today>>, 0, <<>>, "")}

InitGetData ==
    /\ now \in DataNows
    /\ store \in UNION {[1..n -> DataPages(now)] : n \in 0..MaxDataPages}
    /\ resp = <<>>
    /\ pc = <<>> /\ req = <<>>
    /\ IdleDates /\ IdleReport /\ IdleCalls

GetData(method) ==
    /\ resp = <<>>
    /\ resp' =
         IF method # "GET"
         THEN <<[handler |-> "get-data", statusCode |-> 405]>>
         ELSE LET todayStr == FormatYMD(now)
                  firstOfMonthStr == FormatYMD(StartOfMonth(now))
                  results == QueryOnOrAfter(Identified(store), firstOfMonthStr)
                  looped == GetDataLoop(results, todayStr, 1, GetDataStart)
                  IsToday(e) == e.date = todayStr
              IN  <<[handler |-> "get-data", statusCode |-> 200,
                     today |-> todayStr,
                     todayEntries |-> SelectSeq(looped.entries, IsToday),
                     todayTotalHours |-> looped.todayTotalHours,
                     monthTotalHours |-> looped.monthTotalHours,
                     monthName |-> MonthNames[now.m],
                     todayEntryId |-> looped.todayEntryId,
                     todayEntry |-> looped.todayEntry]>>
    /\ UNCHANGED <<dateVars, reportVars, now, store, procVars, calls>>

NextGetData == \E method \in Methods : GetData(method)

SpecGetData == InitGetData /\ [][NextGetData]_vars

(* Claims about get-data *)

\* C20: monthTotalHours is the sum of the hours of exactly the store entries
\* dated in the current month, todayTotalHours the sum of those dated today,
\* and todayEntryId / todayEntry are non-null iff an entry is dated today and
\* then describe the first such entry in the query's order.
C20_GetDataTotals ==
    (resp # <<>> /\ resp[1].handler = "get-data" /\ resp[1].statusCode = 200) =>
        LET inMonth == {i \in 1..Len(store) :
                           /\ store[i].date # <<>>
                           /\ store[i].date[1].y = now.y /\ store[i].date[1].m = now.m}
            today == {i \in 1..Len(store) : store[i].date = <<now>>}
            results == QueryOnOrAfter(Identified(store), FormatYMD(StartOfMonth(now)))
        IN  /\ resp[1].monthTotalHours = SumOver([i \in inMonth |-> store[i].hours], inMonth)
            /\ resp[1].todayTotalHours = SumOver([i \in today |-> store[i].hours], today)
            /\ (resp[1].todayEntryId # 0) = (today # {})
            /\ (resp[1].todayEntry # <<>>) = (today # {})
            /\ today # {} =>
                  \E n \in 1..Len(results) :
                     /\ results[n].date = <<now>>
                     /\ \A l \in 1..(n - 1) : results[l].date # <<now>>
                     /\ resp[1].todayEntryId = results[n].id
                     /\ resp[1].todayEntry = <<[hours |-> results[n].hours,
                                                description |-> results[n].description,
                                                notes |-> results[n].notes]>>

----------------------------------------------------------------------------
(* SpecMapping: the three mapping loops (CSV export, document handler,       *)
(* get-data) on every batch of up to MaxBatch raw records, records with a    *)
(* missing date, hours or description included; store holds the batch.       *)

MapToday == [y |-> 2024, m |-> 3, d |-> 10]

RawRecords ==
    {Page(d, h, desc, "") : d \in {<<>>, <<MapToday>>, <<AddDays(MapToday, 0 - 1)>>},
                            h \in {0, MaxHours}, desc \in {<<>>, <<"work">>}}

InitMapping ==
    /\ now = MapToday
    /\ store \in UNION {[1..n -> RawRecords] : n \in 0..MaxBatch}
    /\ resp = <<>>
    /\ pc = <<>> /\ req = <<>>
    /\ IdleDates /\ IdleReport /\ IdleCalls

MapCsvEntries ==
    /\ resp = <<>>
    /\ resp' = <<[handler |-> "export-csv", entries |-> CsvEntries(store)]>>
    /\ UNCHANGED <<dateVars, reportVars, now, store, procVars, calls>>

MapPdfEntries ==
    /\ resp = <<>>
    /\ resp' = <<[handler |-> "export-pdf", entries |-> PdfEntries(store)]>>
    /\ UNCHANGED <<dateVars, reportVars, now, store, procVars, calls>>

MapGetData ==
    /\ resp = <<>>
    /\ resp' = <<[handler |-> "get-data",
                  entries |-> GetDataLoop(Identified(store), FormatYMD(now), 1,
                                          GetDataStart).entries]>>
    /\ UNCHANGED <<dateVars, reportVars, now, store, procVars, calls>>

NextMapping == MapCsvEntries \/ MapPdfEntries \/ MapGetData

SpecMapping == InitMapping /\ [][NextMapping]_vars

(* Claims about the mapping loops *)

----------------------------------------------------------------------------
(* The calendar endpoints: calendar-get-events (a comma-separated list of    *)
(* weekdays), the single-day get-events, and calendar-add-event             *)

NaN == 0 - 1

\* parseInt(d.trim(), 10) of the elements the day parameter is drawn from:
\* the leading digits count ("3x" is 3), no leading digit gives NaN
ParseInt(tok) ==
    CASE tok = "0" -> 0 [] tok = "1" -> 1 [] tok = "2" -> 2 [] tok = "3" -> 3
      [] tok = "4" -> 4 [] tok = "5" -> 5 [] tok = "6" -> 6 [] tok = "7" -> 7
      [] tok = "8" -> 8 [] tok = "3x" -> 3 [] OTHER -> NaN

IsNaN(n) == n = NaN

\* the weekday test with 0 let through (< 0 for < 1)
InvalidDayFromZero(day) == IsNaN(day) \/ day < 0 \/ day > 7

\* isNaN(day) || day < 1 || day > 7
InvalidDay(day) == IsNaN(day) \/ day < 1 \/ day > 7

\* a call of the Notion client, as logged in calls
Call(api, args) == [api |-> api, args |-> args]

\* dayjs#isoWeekday(): this.day() || 7
IsoWeekday(dt) == IF Day(dt) = 0 THEN 7 ELSE Day(dt)

\* dayjs#day(n): the date moved by n - this.day() days
SetDay(dt, n) == AddDays(dt, n - Day(dt))

\* dayjs#isoWeekday(n): this.day(this.day() % 7 ? n : n - 7)
SetIsoWeekday(dt, n) == SetDay(dt, IF Day(dt) % 7 # 0 THEN n ELSE n - 7)

\* the target dates with every passed day rolled forward on its own
TargetDatesPerDay(today, days) ==
    LET currentDayOfWeek == IsoWeekday(today)
    IN  [i \in 1..Len(days) |->
            LET target == SetIsoWeekday(today, days[i])
            IN  IF days[i] < currentDayOfWeek THEN AddDays(target, 7) ELSE target]

\* the dates of the requested weekdays, rolled to next week only if all have passed
TargetDates(today, days) ==
    LET currentDayOfWeek == IsoWeekday(today)
        anyDayNotPassed == \E i \in 1..Len(days) : days[i] >= currentDayOfWeek
    IN  [i \in 1..Len(days) |->
            LET target == SetIsoWeekday(today, days[i])
            IN  IF ~anyDayNotPassed THEN AddDays(target, 7) ELSE target]

\* targetDates.reduce((min, d) => (d.isBefore(min) ? d : min), targetDates[0])
RECURSIVE MinOfDates(_, _)
MinOfDates(ds, min) ==
    IF ds = <<>> THEN min
    ELSE MinOfDates(Tail(ds), IF IsBefore(ds[1], min) THEN ds[1] ELSE min)

\* targetDates.reduce((max, d) => (d.isAfter(max) ? d : max), targetDates[0])
RECURSIVE MaxOfDates(_, _)
MaxOfDates(ds, max) ==
    IF ds = <<>> THEN max
    ELSE MaxOfDates(Tail(ds), IF IsAfter(ds[1], max) THEN ds[1] ELSE max)

\* a page of the calendar database: Name, Date.start as a day <<y, m, d>> with
\* the time of day ("" for a date-only start), Date.end as <<>> (null) or <<day>>
EventPage(name, start, time, end) ==
    [name |-> name, date |-> start, time |-> time, end |-> end]

\* the hour and minute of the times of day the pages are given
TimeOfDay(time) ==
    CASE time = "09:30" -> [h |-> 9, m |-> 30]
      [] time = "14:00" -> [h |-> 14, m |-> 0]
      [] OTHER -> [h |-> 0, m |-> 0]

\* dayjs(datetime).valueOf(), in minutes; datetime is [date, time]
InstantOf(datetime) ==
    ValueOf(ParseYMD(datetime.date)) * 1440 + TimeOfDay(datetime.time).h * 60
        + TimeOfDay(datetime.time).m

\* dayjs#format("h:mm A")
FormatHMMA(time) ==
    LET t == TimeOfDay(time)
    IN  <<IF t.h % 12 = 0 THEN 12 ELSE t.h % 12, t.m, IF t.h < 12 THEN "AM" ELSE "PM">>

\* dayjs#format("ddd").toUpperCase()
FormatDDD(dt) == <<"SUN", "MON", "TUE", "WED", "THU", "FRI", "SAT">>[Day(dt) + 1]

\* the pages as the query returns them: the id (the position in the database),
\* the name, Date.start as datetime and Date.end
IdentifiedEvents(pages) ==
    [i \in 1..Len(pages) |->
        [id |-> i, name |-> pages[i].name,
         datetime |-> [date |-> pages[i].date, time |-> pages[i].time],
         end |-> pages[i].end]]

\* xs sorted by datetime ascending, equal datetimes in their given order
RECURSIVE SortByInstant(_)
SortByInstant(xs) ==
    IF xs = <<>> THEN <<>>
    ELSE LET rest == SortByInstant(SubSeq(xs, 1, Len(xs) - 1))
             x == xs[Len(xs)]
             Le(e) == InstantOf(e.datetime) <= InstantOf(x.datetime)
             Gt(e) == InstantOf(e.datetime) > InstantOf(x.datetime)
         IN  SelectSeq(rest, Le) \o <<x>> \o SelectSeq(rest, Gt)

\* the query with the branch of the events that started before the range left out
CalendarQueryInRangeOnly(pages, minDate, maxDate, lookBack) ==
    LET InRange(p) ==
            /\ ~IsBefore(ParseYMD(p.datetime.date), minDate)
            /\ IsBefore(ParseYMD(p.datetime.date), AddDays(maxDate, 1))
    IN  SortByInstant(SelectSeq(IdentifiedEvents(pages), InRange))

\* notion.dataSources.query of the calendar: the pages starting within
\* [rangeStart, rangeEnd), or on or before rangeStart and on or after
\* minDate.subtract(30, "day"), sorted by Date ascending.  That last bound keeps
\* the time of day of now, so of the pages starting on the 30th day before
\* minDate it lets in those starting late enough in the day: lookBack, their ids.
CalendarQuery(pages, minDate, maxDate, lookBack) ==
    LET InRange(p) ==
            /\ ~IsBefore(ParseYMD(p.datetime.date), minDate)
            /\ IsBefore(ParseYMD(p.datetime.date), AddDays(maxDate, 1))
        StartedBefore(p) ==
            /\ ~IsAfter(ParseYMD(p.datetime.date), minDate)
            /\ \/ IsAfter(ParseYMD(p.datetime.date), AddDays(minDate, 0 - 30))
               \/ /\ IsSameDay(ParseYMD(p.datetime.date), AddDays(minDate, 0 - 30))
                  /\ p.id \in lookBack
        Matches(p) == InRange(p) \/ StartedBefore(p)
    IN  SortByInstant(SelectSeq(IdentifiedEvents(pages), Matches))

\* the ids of the pages starting on the 30th day before minDate
OnLookBackDay(pages, minDate) ==
    {i \in 1..Len(pages) : IsSameDay(ParseYMD(pages[i].date), AddDays(minDate, 0 - 30))}

\* matchesTargetDate
MatchesTargetDate(page, targetDates) ==
    LET startInMST == ParseYMD(page.datetime.date)
        startDateStr == FormatYMD(startInMST)
    IN  IF page.end # <<>>
        THEN LET endInMST == ParseYMD(page.end[1])
             IN  \E i \in 1..Len(targetDates) :
                    LET target == ParseYMD(FormatYMD(targetDates[i]))
                    IN  /\ IsSameDay(target, startInMST) \/ IsAfter(target, startInMST)
                        /\ IsSameDay(target, endInMST) \/ IsBefore(target, endInMST)
        ELSE \E i \in 1..Len(targetDates) : FormatYMD(targetDates[i]) = startDateStr

\* the loop over response.results from results[i] on
RECURSIVE EventsLoop(_, _, _, _)
EventsLoop(results, targetDates, i, events) ==
    IF i > Len(results) THEN events
    ELSE LET page == results[i]
         IN  IF ~MatchesTargetDate(page, targetDates)
             THEN EventsLoop(results, targetDates, i + 1, events)
             ELSE EventsLoop(results, targetDates, i + 1,
                     Append(events,
                         [id |-> page.id, name |-> page.name,
                          time |-> IF page.datetime.time # ""
                                   THEN FormatHMMA(page.datetime.time)
                                   ELSE <<"All Day">>,
                          dayOfWeek |-> FormatDDD(ParseYMD(page.datetime.date)),
                          datetime |-> page.datetime]))

\* events.sort: the "All Day" events first, then by datetime ascending
SortEvents(events) ==
    LET IsAllDay(e) == e.time = <<"All Day">>
        HasTime(e) == ~IsAllDay(e)
    IN  SelectSeq(events, IsAllDay) \o SortByInstant(SelectSeq(events, HasTime))

----------------------------------------------------------------------------
(* SpecCalendar: the calendar handlers on every day parameter of up to       *)
(* MaxDays elements; a behaviour is one invocation.                          *)

FirstCalNow == [y |-> 2024, m |-> 12, d |-> 23]
CalNows == {AddDays(FirstCalNow, i) : i \in 0..(NumCalNow - 1)}
DayTokens == {"0", "1", "2", "3", "4", "5", "6", "7", "8", "x", "3x"}
\* the day parameter as its comma-separated elements; <<>> is the missing parameter
DayParams == UNION {[1..n -> DayTokens] : n \in 0..MaxDays}
AddEventMethods == Methods \cup {"OPTIONS"}
EventNames == {"", "standup"}
EventTimes == {"", "09:30"}

InitCalendar ==
    /\ now \in CalNows
    /\ resp = <<>>
    /\ IdleDates /\ IdleReport /\ IdleStore /\ IdleCalls

\* the request an invocation was given, kept for the claims
Request(endpoint, method, day, name) ==
    [endpoint |-> endpoint, method |-> method, day |-> day, name |-> name]

\* calendar-get-events on a request drawn from methods and dayParams
CalendarGetEventsOf(methods, dayParams) ==
    /\ resp = <<>>
    /\ \E method \in methods, dayParam \in dayParams :
          /\ req' = <<Request("calendar-get-events", method, dayParam, "")>>
          /\ IF method # "GET"
             THEN /\ resp' = <<[handler |-> "calendar-get-events", statusCode |-> 405]>>
                  /\ UNCHANGED calls
             ELSE IF dayParam = <<>>
             THEN /\ resp' = <<[handler |-> "calendar-get-events", statusCode |-> 400]>>
                  /\ UNCHANGED calls
             ELSE LET days == [i \in 1..Len(dayParam) |-> ParseInt(dayParam[i])]
                  IN  IF \E i \in 1..Len(days) : InvalidDay(days[i])
                      THEN /\ resp' = <<[handler |-> "calendar-get-events", statusCode |-> 400]>>
                           /\ UNCHANGED calls
                      ELSE LET targetDates == TargetDates(now, days)
                               minDate == MinOfDates(targetDates, targetDates[1])
                               maxDate == MaxOfDates(targetDates, targetDates[1])
                               rangeStart == FormatYMD(minDate)
                               rangeEnd == FormatYMD(AddDays(maxDate, 1))
                           IN  /\ calls' = calls \o
                                     <<Call("databases.retrieve", <<>>),
                                       Call("dataSources.query", <<rangeStart, rangeEnd>>)>>
                               /\ \E lookBack \in SUBSET OnLookBackDay(store, minDate) :
                                     resp' = <<[handler |-> "calendar-get-events",
                                                statusCode |-> 200,
                                                dates |-> [i \in 1..Len(days) |->
                                                              FormatYMD(targetDates[i])],
                                                days |-> days,
                                                events |-> SortEvents(EventsLoop(
                                                    CalendarQuery(store, minDate, maxDate,
                                                                  lookBack),
                                                    targetDates, 1, <<>>)),
                                                rangeStart |-> rangeStart,
                                                rangeEnd |-> rangeEnd]>>
          /\ UNCHANGED <<dateVars, reportVars, now, store, pc>>

\* the single-day get-events: parseInt reads the parameter up to its first comma
CalendarGetEventsDay ==
    /\ resp = <<>>
    /\ \E method \in Methods, dayParam \in DayParams :
          /\ req' = <<Request("calendar-get-events-day", method, dayParam, "")>>
          /\ IF method # "GET"
             THEN /\ resp' = <<[handler |-> "calendar-get-events-day", statusCode |-> 405]>>
                  /\ UNCHANGED calls
             ELSE IF dayParam = <<>>
             THEN /\ resp' = <<[handler |-> "calendar-get-events-day", statusCode |-> 400]>>
                  /\ UNCHANGED calls
             ELSE LET dayOfWeek == ParseInt(dayParam[1])
                  IN  IF InvalidDay(dayOfWeek)
                      THEN /\ resp' = <<[handler |-> "calendar-get-events-day",
                                         statusCode |-> 400]>>
                           /\ UNCHANGED calls
                      ELSE LET targetDate == SetIsoWeekday(now, dayOfWeek)
                           IN  /\ calls' = calls \o
                                     <<Call("databases.retrieve", <<>>),
                                       Call("dataSources.query",
                                            <<FormatYMD(targetDate),
                                              FormatYMD(AddDays(targetDate, 1))>>)>>
                               /\ resp' = <<[handler |-> "calendar-get-events-day",
                                             statusCode |-> 200,
                                             date |-> FormatYMD(targetDate),
                                             day |-> dayOfWeek]>>
          /\ UNCHANGED <<dateVars, reportVars, now, store, pc>>

\* calendar-add-event: the page is created on the requested weekday of the
\* current week, with the time if one was given
CalendarAddEvent ==
    /\ resp = <<>>
    /\ \E method \in AddEventMethods, name \in EventNames, time \in EventTimes,
          dayField \in DayTokens :
          /\ req' = <<Request("calendar-add-event", method, dayField, name)>>
          /\ IF method = "OPTIONS"
             THEN /\ resp' = <<[handler |-> "calendar-add-event", statusCode |-> 200]>>
                  /\ UNCHANGED <<calls, store>>
             ELSE IF method # "POST"
             THEN /\ resp' = <<[handler |-> "calendar-add-event", statusCode |-> 405]>>
                  /\ UNCHANGED <<calls, store>>
             ELSE LET day == ParseInt(dayField)
                  IN  IF name = "" \/ InvalidDay(day)
                      THEN /\ resp' = <<[handler |-> "calendar-add-event", statusCode |-> 400]>>
                           /\ UNCHANGED <<calls, store>>
                      ELSE LET targetDate == SetIsoWeekday(now, day)
                               created == EventPage(name, FormatYMD(targetDate), time, <<>>)
                           IN  /\ calls' = calls \o <<Call("pages.create", created)>>
                               /\ store' = Append(store, created)
                               /\ resp' = <<[handler |-> "calendar-add-event",
                                             statusCode |-> 200,
                                             pageId |-> Len(store) + 1]>>
          /\ UNCHANGED <<dateVars, reportVars, now, pc>>

CalendarGetEvents == CalendarGetEventsOf(Methods, DayParams)

NextCalendar == CalendarGetEvents \/ CalendarGetEventsDay \/ CalendarAddEvent

SpecCalendar == InitCalendar /\ [][NextCalendar]_vars

(* Claims about the weekday group *)

\* ISO weekday (1 = Monday .. 7 = Sunday) and ISO week of a date, counted from
\* Monday 1969-12-29
IsoDayOf(dt) == ((ValueOf(dt) + 3) % 7) + 1
IsoWeekOf(dt) == (ValueOf(dt) + 3) \div 7

\* C5: with c the current ISO weekday, every returned date is the requested
\* weekday's date of next ISO week if every requested weekday is < c, and of
\* the current ISO week otherwise (days already passed included); in both cases
\* all returned dates lie in one ISO week (c = 3: {1,2} rolls, {1,5} stays).
C5_GroupRoll ==
    (resp # <<>> /\ resp[1].handler = "calendar-get-events" /\ resp[1].statusCode = 200) =>
        LET c == IsoDayOf(now)
            days == resp[1].days
            dates == [i \in 1..Len(days) |-> ParseYMD(resp[1].dates[i])]
            allPassed == \A i \in 1..Len(days) : days[i] < c
        IN  /\ Len(days) >= 1
            /\ \A i \in 1..Len(days) :
                  /\ IsoDayOf(dates[i]) = days[i]
                  /\ IsoWeekOf(dates[i]) = IsoWeekOf(now) + (IF allPassed THEN 1 ELSE 0)
            /\ \A i, j \in 1..Len(days) : IsoWeekOf(dates[i]) = IsoWeekOf(dates[j])
            /\ (c = 3 /\ days = <<1, 2>> =>
                  \A i \in 1..2 : dates[i] = AddDays(now, days[i] - 3 + 7))
            /\ (c = 3 /\ days = <<1, 5>> =>
                  \A i \in 1..2 : dates[i] = AddDays(now, days[i] - 3))

\* on a Wednesday, Monday and Friday have been requested together
C5_Witness ==
    /\ resp # <<>> /\ resp[1].handler = "calendar-get-events" /\ resp[1].statusCode = 200
    /\ IsoDayOf(now) = 3 /\ resp[1].days = <<1, 5>>

\* on a Wednesday, Monday and Tuesday have been requested together
C5_WitnessRolled ==
    /\ resp # <<>> /\ resp[1].handler = "calendar-get-events" /\ resp[1].statusCode = 200
    /\ IsoDayOf(now) = 3 /\ resp[1].days = <<1, 2>>

\* the elements of the day parameter that read as a weekday 1..7
ValidDayTokens == {"1", "2", "3", "4", "5", "6", "7", "3x"}

\* C15: in each calendar endpoint, a request by the endpoint's method whose
\* weekday does not read as an integer in 1..7 (multi-day get-events: any one
\* element of the list; single-day get-events: the parameter up to its first
\* comma; add-event: the day field) is answered 400 with no Notion call made
\* and no page created; a get-events request whose weekdays all read as 1..7 is
\* answered 200 after its query, and an add-event request with a valid day is
\* rejected only when the name is missing.
C15_InvalidWeekdayIs400 ==
    (resp # <<>> /\ req # <<>>) =>
        LET r == req[1]
            Rejected == resp[1].statusCode = 400 /\ calls = <<>> /\ store = <<>>
        IN  CASE r.endpoint = "calendar-get-events" /\ r.method = "GET" ->
                   IF r.day = <<>> \/ \E i \in 1..Len(r.day) : r.day[i] \notin ValidDayTokens
                   THEN Rejected
                   ELSE /\ resp[1].statusCode = 200
                        /\ \E i \in 1..Len(calls) : calls[i].api = "dataSources.query"
             [] r.endpoint = "calendar-get-events-day" /\ r.method = "GET" ->
                   IF r.day = <<>> \/ r.day[1] \notin ValidDayTokens
                   THEN Rejected
                   ELSE /\ resp[1].statusCode = 200
                        /\ \E i \in 1..Len(calls) : calls[i].api = "dataSources.query"
             [] r.endpoint = "calendar-add-event" /\ r.method = "POST" ->
                   IF r.day \notin ValidDayTokens
                   THEN Rejected
                   ELSE IF r.name = "" THEN Rejected
                   ELSE /\ resp[1].statusCode = 200
                        /\ Len(store) = 1 /\ store[1].name = r.name
             [] OTHER -> calls = <<>> /\ store = <<>>

\* the multi-day get-events has rejected a list whose first element is a valid
\* weekday and whose second is not
C15_Witness ==
    /\ resp # <<>> /\ req # <<>>
    /\ req[1].endpoint = "calendar-get-events" /\ req[1].method = "GET"
    /\ Len(req[1].day) = 2
    /\ req[1].day[1] \in ValidDayTokens /\ req[1].day[2] = "0"
    /\ resp[1].statusCode = 400

----------------------------------------------------------------------------
(* SpecEvents: calendar-get-events on calendar databases of up to MaxEvents   *)
(* pages, for valid weekday lists of up to MaxDays elements.  The pages are   *)
(* dated around the week of EventBase, a Monday: single-day and multi-day     *)
(* events starting within the week, and multi-day events starting 29, 30 and *)
(* 31 days before it.                                                        *)

EventBase == FirstCalNow
\* a Thursday and the Saturday of the same week
EventNows == {AddDays(EventBase, 3), AddDays(EventBase, 5)}
EventDayParams == UNION {[1..n -> {"1", "3", "5"}] : n \in 1..MaxDays}

\* the page starting start days after EventBase; len is <<>> for no end date
\* or <<n>> for an end date n days after the start
EventAt(start, len, time) ==
    EventPage("standup", FormatYMD(AddDays(EventBase, start)), time,
              IF len = <<>> THEN <<>>
              ELSE <<FormatYMD(AddDays(EventBase, start + len[1]))>>)

EventPages ==
    {EventAt(0 - 31, <<33>>, ""), EventAt(0 - 30, <<30>>, "09:30"),
     EventAt(0 - 29, <<29>>, ""), EventAt(0, <<>>, ""), EventAt(1, <<2>>, ""),
     EventAt(4, <<4>>, "09:30")}

InitEvents ==
    /\ now \in EventNows
    /\ store \in UNION {[1..n -> EventPages] : n \in 0..MaxEvents}
    /\ resp = <<>>
    /\ pc = <<>> /\ req = <<>>
    /\ IdleDates /\ IdleReport /\ IdleCalls

GetEventsOfStore == CalendarGetEventsOf({"GET"}, EventDayParams)

NextEvents == GetEventsOfStore

SpecEvents == InitEvents /\ [][NextEvents]_vars

(* Claims about the returned events *)

\* the target dates of the response
TargetsOf(r) == {ParseYMD(r.dates[i]) : i \in 1..Len(r.dates)}
\* the ids of the returned events
ReturnedIds(r) == {r.events[i].id : i \in 1..Len(r.events)}
\* the page overlaps a target date: a target within [start day, end day], or
\* the start day a target for a page without an end date
Overlaps(page, targets) ==
    IF page.end # <<>>
    THEN \E d \in targets : /\ ValueOf(ParseYMD(page.date)) <= ValueOf(d)
                            /\ ValueOf(d) <= ValueOf(ParseYMD(page.end[1]))
    ELSE ParseYMD(page.date) \in targets
\* the number of days from the page's start to the earliest target date
DaysBeforeTargets(page, targets) ==
    LET first == CHOOSE d \in targets : \A e \in targets : ValueOf(d) <= ValueOf(e)
    IN  ValueOf(first) - ValueOf(ParseYMD(page.date))

----------------------------------------------------------------------------
(* The write endpoints of the time-tracking database: time-tracking-add-row  *)
(* (create without entryId, update with entryId) and add-new-row.            *)
(* An add-row create awaits the existence query before it creates the page,  *)
(* so it takes two steps; requests of other invocations may run in between.  *)

\* the add-row invocations that can be in flight together
Procs == {"a", "b"}
FirstStoreDate == [y |-> 2024, m |-> 3, d |-> 1]
StoreDates == {AddDays(FirstStoreDate, i) : i \in 0..(NumStoreDates - 1)}

\* a request body: hours 0, date <<>> and description "" are the missing values,
\* entryId 0 is the missing entryId
Body(h, d, desc, id) == [hours |-> h, date |-> d, description |-> desc, entryId |-> id]

\* the complete bodies, and one body for each missing field
Bodies ==
    {Body(1, <<d>>, "work", id) : d \in StoreDates, id \in 0..MaxStorePages}
        \cup {Body(0, <<FirstStoreDate>>, "work", 0), Body(1, <<>>, "work", 0),
              Body(1, <<FirstStoreDate>>, "", 0)}

\* the requests: every body by POST, and one GET
Requests ==
    {[method |-> "POST", body |-> b] : b \in Bodies}
        \cup {[method |-> "GET", body |-> Body(1, <<FirstStoreDate>>, "work", 0)]}

\* notion.dataSources.query with the filter Date equals date
QueryEquals(pages, d) ==
    LET OnDate(p) == p.date = d IN SelectSeq(pages, OnDate)

\* getTodayInMST
getTodayInMST(today) == <<today>>

InitStore ==
    /\ now \in StoreDates
    /\ store = <<>>
    /\ pc = [p \in Procs |-> "idle"]
    /\ req = [p \in Procs |-> <<>>]
    /\ resp = <<>>
    /\ IdleDates /\ IdleReport /\ IdleCalls

\* add-row up to its second await: method check, validation, then either the
\* update of the page entryId or the existence query of a create
AddRowRequest(p, method, body) ==
    /\ pc[p] = "idle"
    /\ IF method # "POST"
       THEN /\ resp' = <<[handler |-> "add-row", statusCode |-> 405]>>
            /\ UNCHANGED <<store, pc, req>>
       ELSE IF body.hours = 0 \/ body.date = <<>> \/ body.description = ""
       THEN /\ resp' = <<[handler |-> "add-row", statusCode |-> 400]>>
            /\ UNCHANGED <<store, pc, req>>
       ELSE IF body.entryId # 0
       THEN IF body.entryId \in 1..Len(store)
            THEN /\ store' = [store EXCEPT ![body.entryId] =
                                 Page(body.date, body.hours, body.description, "")]
                 /\ resp' = <<[handler |-> "add-row", statusCode |-> 200]>>
                 /\ UNCHANGED <<pc, req>>
            ELSE /\ resp' = <<[handler |-> "add-row", statusCode |-> 500]>>
                 /\ UNCHANGED <<store, pc, req>>
       ELSE /\ pc' = [pc EXCEPT ![p] = "queried"]
            /\ req' = [req EXCEPT ![p] = <<[body |-> body,
                                            results |-> Len(QueryEquals(store, body.date))]>>]
            /\ UNCHANGED <<store, resp>>
    /\ UNCHANGED <<dateVars, reportVars, now, calls>>

\* add-row after the existence query, creating the page whatever the query returned
AddRowCreateAlways(p) ==
    /\ pc[p] = "queried"
    /\ LET body == req[p][1].body
       IN  /\ Len(store) < MaxStorePages
           /\ store' = Append(store, Page(body.date, body.hours, body.description, ""))
           /\ resp' = <<[handler |-> "add-row", statusCode |-> 200]>>
    /\ pc' = [pc EXCEPT ![p] = "idle"]
    /\ req' = [req EXCEPT ![p] = <<>>]
    /\ UNCHANGED <<dateVars, reportVars, now, calls>>

\* add-row after the existence query: 409 if it returned a page, else pages.create
AddRowCreate(p) ==
    /\ pc[p] = "queried"
    /\ LET body == req[p][1].body
       IN  IF req[p][1].results > 0
           THEN /\ resp' = <<[handler |-> "add-row", statusCode |-> 409]>>
                /\ UNCHANGED store
           ELSE /\ Len(store) < MaxStorePages
                /\ store' = Append(store, Page(body.date, body.hours, body.description, ""))
                /\ resp' = <<[handler |-> "add-row", statusCode |-> 200]>>
    /\ pc' = [pc EXCEPT ![p] = "idle"]
    /\ req' = [req EXCEPT ![p] = <<>>]
    /\ UNCHANGED <<dateVars, reportVars, now, calls>>

\* add-new-row: validation of hours and description, then pages.create
AddNewRow(method, body) ==
    /\ IF method # "POST"
       THEN /\ resp' = <<[handler |-> "add-new-row", statusCode |-> 405]>>
            /\ UNCHANGED store
       ELSE IF body.hours = 0 \/ body.description = ""
       THEN /\ resp' = <<[handler |-> "add-new-row", statusCode |-> 400]>>
            /\ UNCHANGED store
       ELSE /\ Len(store) < MaxStorePages
            /\ store' = Append(store,
                   Page(IF body.date # <<>> THEN body.date ELSE getTodayInMST(now),
                        body.hours, body.description, ""))
            /\ resp' = <<[handler |-> "add-new-row", statusCode |-> 200,
                          id |-> Len(store) + 1]>>
    /\ UNCHANGED <<dateVars, reportVars, now, procVars, calls>>

NextStore ==
    \/ \E p \in Procs, r \in Requests : AddRowRequest(p, r.method, r.body)
    \/ \E p \in Procs : AddRowCreate(p)
    \/ \E r \in Requests : AddNewRow(r.method, r.body)

SpecStore == InitStore /\ [][NextStore]_vars

(* SpecAddRowCreates: add-row create requests only (POST, complete body, no  *)
(* entryId), issued by the invocations of Procs in any interleaving.         *)

CreateBodies == {Body(1, <<d>>, "work", 0) : d \in StoreDates}

NextAddRowCreates ==
    \/ \E p \in Procs, b \in CreateBodies : AddRowRequest(p, "POST", b)
    \/ \E p \in Procs : AddRowCreate(p)

SpecAddRowCreates == InitStore /\ [][NextAddRowCreates]_vars

(* Claims about the store *)

\* C9: after any sequence of requests to the write endpoints the store holds at
\* most one entry per calendar date.
C9_OneEntryPerDate ==
    \A i, j \in 1..Len(store) : i # j => store[i].date # store[j].date

\* C18: an add-row response 400, 405 or 409 comes with an unchanged store; the
\* existence query of a create returns a result exactly when the store holds an
\* entry on the request's date; a create whose query returned a result answers
\* 409 and leaves the store unchanged, and add-row adds a page only in a create
\* whose query returned no result.
C18_RejectsLeaveStore ==
    [][ /\ (resp' # <<>> /\ resp'[1].handler = "add-row"
                /\ resp'[1].statusCode \in {400, 405, 409}) => store' = store
        /\ \A p \in Procs :
              /\ (pc[p] = "idle" /\ pc'[p] = "queried") =>
                    (req'[p][1].results > 0
                        <=> \E i \in 1..Len(store) : store[i].date = req'[p][1].body.date)
              /\ (pc[p] = "queried" /\ pc'[p] = "idle" /\ req[p][1].results > 0) =>
                    /\ resp' = <<[handler |-> "add-row", statusCode |-> 409]>>
                    /\ store' = store
        /\ (Len(store') > Len(store) /\ resp'[1].handler = "add-row") =>
              \E p \in Procs : /\ pc[p] = "queried" /\ pc'[p] = "idle"
                                /\ req[p][1].results = 0
      ]_vars

\* a create was answered 409 while the store holds an entry
C18_Witness ==
    /\ resp = <<[handler |-> "add-row", statusCode |-> 409]>>
    /\ store # <<>>

\* C19: whatever the interleaving of the existence queries and page creations of
\* concurrent add-row create requests, no two pages of the store have one date.
C19_ConcurrentCreatesExclusive ==
    Cardinality({store[i].date : i \in 1..Len(store)}) = Len(store)

====
